---- MODULE Spec2Model ----
(***************************************************************************)
(* A model of the two ComfyUI custom nodes of this repository:             *)
(*   LoadImageWithMetadata   (src/LoadImageWithMetadata/...)               *)
(*   FinalMetadataReporter   (src/final_metadata_reporter/...)             *)
(* Every call of a node is one action: the host picks the inputs and the   *)
(* state of the file system, the action runs the whole handler and leaves  *)
(* the call's inputs and outcome in the state.                             *)
(***************************************************************************)
EXTENDS Integers, Sequences, FiniteSets, TLC

VARIABLES pc, op, arg, ret

vars == <<pc, op, arg, ret>>

(***************************************************************************)
(* Bounds of the model.                                                    *)
(***************************************************************************)
MaxFrames == 3
MaxTime == 2
MaxFiles == 3

(***************************************************************************)
(* Python values.  Every value has the same shape, so that any two can be  *)
(* compared: t is the type, n the number (or truth value), s the string,   *)
(* e the entries of a dict (in insertion order) or of a list.              *)
(***************************************************************************)
PyNone == [t |-> "none", n |-> 0, s |-> "", e |-> <<>>]
PyBool(b) == [t |-> "bool", n |-> IF b THEN 1 ELSE 0, s |-> "", e |-> <<>>]
PyNum(i) == [t |-> "num", n |-> i, s |-> "", e |-> <<>>]
PyStr(str) == [t |-> "str", n |-> 0, s |-> str, e |-> <<>>]
PyDict(entries) == [t |-> "dict", n |-> 0, s |-> "", e |-> entries]
PyList(entries) == [t |-> "list", n |-> 0, s |-> "", e |-> entries]
Entry(k, v) == [k |-> k, v |-> v]
\* a list element: its key is not used
Item(v) == [k |-> PyNone, v |-> v]
\* a dict entry with a string key
KV(key, v) == [k |-> PyStr(key), v |-> v]

IsDict(x) == x.t = "dict"
IsList(x) == x.t = "list"
IsStr(x) == x.t = "str"

\* bool(x)
Truthy(x) ==
    CASE x.t = "none" -> FALSE
      [] x.t = "bool" -> x.n = 1
      [] x.t = "num" -> x.n # 0
      [] x.t = "str" -> x.s # ""
      [] OTHER -> x.e # <<>>

\* the positions of key k in dict d (at most one)
KeyIndexes(d, k) == {i \in 1..Len(d.e) : d.e[i].k = k}
\* k in d
HasKey(d, k) == KeyIndexes(d, k) # {}
\* d[k], for a key that is present
Lookup(d, k) == d.e[CHOOSE i \in KeyIndexes(d, k) : TRUE].v
\* d.get(k, default)
DictGet(d, k, default) == IF HasKey(d, k) THEN Lookup(d, k) ELSE default
\* d[k] = v: an existing key keeps its place, a new key goes last
DictSet(d, k, v) ==
    IF HasKey(d, k)
    THEN PyDict([i \in 1..Len(d.e) |-> IF d.e[i].k = k THEN Entry(k, v) ELSE d.e[i]])
    ELSE PyDict(Append(d.e, Entry(k, v)))
\* list(d.keys())
Keys(d) == [i \in 1..Len(d.e) |-> d.e[i].k]

(***************************************************************************)
(* json.loads: the text is cut into tokens, the tokens are parsed by       *)
(* recursive descent.  A text that is not JSON fails to parse.             *)
(***************************************************************************)
P(c) == [k |-> "p", s |-> c, n |-> 0]
TStr(c) == [k |-> "s", s |-> c, n |-> 0]
TNum(i) == [k |-> "n", s |-> "", n |-> i]
TBad == [k |-> "bad", s |-> "", n |-> 0]

\* the texts the model stores in images, sidecar files and metadata
TxtNull == "null"
TxtNum == "7"
TxtStr == "\"abc\""
TxtList == "[1]"
TxtEmptyDict == "{}"
TxtGraphA == "{\"1\": {\"class_type\": \"A\"}}"
TxtGraphB == "{\"2\": {\"class_type\": \"B\"}}"
TxtNodesWrap == "{\"nodes\": {\"3\": {\"class_type\": \"C\"}}}"
TxtPathDict == "{\"image_path\": \"x\", \"k\": 1}"
TxtTruncated == "{\"1\": "
TxtFree == "Steps: 20, Sampler: Euler"

Tokens(text) ==
    CASE text = TxtNull -> <<P("null")>>
      [] text = TxtNum -> <<TNum(7)>>
      [] text = TxtStr -> <<TStr("abc")>>
      [] text = TxtList -> <<P("["), TNum(1), P("]")>>
      [] text = TxtEmptyDict -> <<P("{"), P("}")>>
      [] text = TxtGraphA -> <<P("{"), TStr("1"), P(":"), P("{"), TStr("class_type"),
                               P(":"), TStr("A"), P("}"), P("}")>>
      [] text = TxtGraphB -> <<P("{"), TStr("2"), P(":"), P("{"), TStr("class_type"),
                               P(":"), TStr("B"), P("}"), P("}")>>
      [] text = TxtNodesWrap -> <<P("{"), TStr("nodes"), P(":"), P("{"), TStr("3"), P(":"),
                                  P("{"), TStr("class_type"), P(":"), TStr("C"), P("}"),
                                  P("}"), P("}")>>
      [] text = TxtPathDict -> <<P("{"), TStr("image_path"), P(":"), TStr("x"), P(","),
                                 TStr("k"), P(":"), TNum(1), P("}")>>
      [] text = TxtTruncated -> <<P("{"), TStr("1"), P(":")>>
      [] OTHER -> <<TBad>>

Fail == [ok |-> FALSE, v |-> PyNone, i |-> 0]
Got(v, i) == [ok |-> TRUE, v |-> v, i |-> i]
IsP(toks, i, c) == i <= Len(toks) /\ toks[i].k = "p" /\ toks[i].s = c

RECURSIVE ParseValue(_, _), ParseElems(_, _, _), ParseMembers(_, _, _)
\* the value that starts at token i
ParseValue(toks, i) ==
    IF i > Len(toks) THEN Fail
    ELSE LET tk == toks[i] IN
      CASE tk.k = "n" -> Got(PyNum(tk.n), i + 1)
        [] tk.k = "s" -> Got(PyStr(tk.s), i + 1)
        [] tk.k = "p" /\ tk.s = "null" -> Got(PyNone, i + 1)
        [] tk.k = "p" /\ tk.s = "true" -> Got(PyBool(TRUE), i + 1)
        [] tk.k = "p" /\ tk.s = "false" -> Got(PyBool(FALSE), i + 1)
        [] tk.k = "p" /\ tk.s = "[" ->
             IF IsP(toks, i + 1, "]") THEN Got(PyList(<<>>), i + 2)
             ELSE ParseElems(toks, i + 1, <<>>)
        [] tk.k = "p" /\ tk.s = "{" ->
             IF IsP(toks, i + 1, "}") THEN Got(PyDict(<<>>), i + 2)
             ELSE ParseMembers(toks, i + 1, PyDict(<<>>))
        [] OTHER -> Fail
\* the elements of a list from token i on, after the elements acc
ParseElems(toks, i, acc) ==
    LET r == ParseValue(toks, i) IN
    IF ~r.ok THEN Fail
    ELSE IF IsP(toks, r.i, ",") THEN ParseElems(toks, r.i + 1, Append(acc, Item(r.v)))
    ELSE IF IsP(toks, r.i, "]") THEN Got(PyList(Append(acc, Item(r.v))), r.i + 1)
    ELSE Fail
\* the members of an object from token i on, after the members of acc
ParseMembers(toks, i, acc) ==
    IF ~(i <= Len(toks) /\ toks[i].k = "s" /\ IsP(toks, i + 1, ":")) THEN Fail
    ELSE LET r == ParseValue(toks, i + 2)
             d == DictSet(acc, PyStr(toks[i].s), r.v) IN
      IF ~r.ok THEN Fail
      ELSE IF IsP(toks, r.i, ",") THEN ParseMembers(toks, r.i + 1, d)
      ELSE IF IsP(toks, r.i, "}") THEN Got(d, r.i + 1)
      ELSE Fail

\* json.loads(text): [ok, v]; ok is FALSE where json.loads raises JSONDecodeError
JsonLoads(text) ==
    LET toks == Tokens(text)
        r == ParseValue(toks, 1) IN
    IF r.ok /\ r.i = Len(toks) + 1 THEN [ok |-> TRUE, v |-> r.v]
    ELSE [ok |-> FALSE, v |-> PyNone]

(***************************************************************************)
(* The file system and the images the Loader reads.                        *)
(***************************************************************************)
Path(dir, stem, ext) == [dir |-> dir, stem |-> stem, ext |-> ext]
NoPath == Path("", "", "")
\* os.path.join(root, file)
PathStr(p) == p.dir \o "/" \o p.stem \o p.ext
\* os.path.basename(image_path)
Basename(p) == p.stem \o p.ext
\* os.path.splitext(image_path)[0] + ".json"
SidecarPath(p) == Path(p.dir, p.stem, ".json")
\* file.lower(), as far as the suffix goes
Lower(ext) == CASE ext = ".PNG" -> ".png" [] ext = ".Png" -> ".png" [] ext = ".JPG" -> ".jpg"
                [] OTHER -> ext
\* file.lower().endswith('.png')
IsPngName(p) == Lower(p.ext) = ".png"

\* folder_paths.get_output_directory() and what os.walk may find under it
OutFiles == {Path("output", "a", ".png"), Path("output/sub", "b", ".PNG"),
             Path("output", "c", ".jpg")}
\* folder_paths.get_annotated_filepath(image_file)
AnnotatedFilepath(image_file) == Path("input", image_file.stem, image_file.ext)
ImageFiles == {Path("", "up", ".png")}

\* one file of the walk: stat is "gone" when the file is listed by os.walk and
\* os.path.getmtime cannot read it (removed meanwhile, a dangling link)
WalkEntries ==
    {[path |-> p, mtime |-> t, stat |-> "ok"] : p \in OutFiles, t \in 1..MaxTime}
    \cup {[path |-> p, mtime |-> 0, stat |-> "gone"] : p \in OutFiles}
Min(a, b) == IF a < b THEN a ELSE b
\* the files in the order os.walk yields them
Walks ==
    UNION {{w \in [1..n -> WalkEntries] :
              \A i, j \in 1..n : i # j => w[i].path # w[j].path} :
           n \in 0..Min(MaxFiles, Cardinality(OutFiles))}

\* width and height of a frame after exif_transpose and convert("RGB")
FrameSizes == {[w |-> 2, h |-> 2], [w |-> 1, h |-> 2], [w |-> 2, h |-> 1]}
FrameSeqs == UNION {[1..n -> FrameSizes] : n \in 1..MaxFrames}
Formats == {"PNG", "MPO"}
ExcludedFormats == {"MPO"}
PlaceholderSide == 64

NoWorkflow == "No workflow metadata found"
GraphObject == PyDict(<<KV("9", PyDict(<<KV("class_type", PyStr("D"))>>))>>)

\* img.info of the images
Infos ==
    { PyDict(<<>>),
      PyDict(<<KV("dpi", PyNum(72))>>),
      PyDict(<<KV("prompt", PyStr(TxtGraphA))>>),
      PyDict(<<KV("prompt", PyStr(TxtTruncated))>>),
      PyDict(<<KV("workflow", PyStr(TxtNodesWrap))>>),
      PyDict(<<KV("parameters", PyStr(TxtFree))>>),
      PyDict(<<KV("dpi", PyNum(72)), KV("workflow", PyStr(TxtGraphB)),
               KV("prompt", PyStr(TxtGraphA))>>),
      PyDict(<<KV("parameters", PyStr(TxtFree)), KV("prompt", PyStr(TxtNull))>>),
      PyDict(<<KV("prompt", GraphObject)>>) }

\* the file beside the image: absent, a directory of that name, or a file
NoSidecar == [state |-> "absent", text |-> ""]
Sidecars ==
    {NoSidecar, [state |-> "dir", text |-> ""]}
    \cup {[state |-> "file", text |-> x] :
            x \in {TxtGraphA, TxtPathDict, TxtEmptyDict, TxtList, TxtNull, TxtNum,
                   TxtTruncated}}

Image(open, format, frames, info, sidecar) ==
    [open |-> open, format |-> format, frames |-> frames, info |-> info,
     sidecar |-> sidecar]
OneFrame == <<[w |-> 2, h |-> 2]>>
\* images that differ in their frames
FrameContents ==
    {Image("ok", f, fr, PyDict(<<>>), NoSidecar) : f \in Formats, fr \in FrameSeqs}
\* images that differ in their metadata
MetaContents ==
    {Image("ok", "PNG", OneFrame, i, sc) : i \in Infos, sc \in Sidecars}
\* files that do not open ("missing", "corrupt") or do not decode ("truncated")
BadContents ==
    {Image(o, "PNG", OneFrame, PyDict(<<>>), NoSidecar) :
       o \in {"missing", "corrupt", "truncated"}}
Contents == FrameContents \cup MetaContents \cup BadContents
\* what the most recent file of the output directory may hold
DirectContents ==
    { Image("ok", "PNG", OneFrame, PyDict(<<>>), NoSidecar),
      Image("missing", "PNG", OneFrame, PyDict(<<>>), NoSidecar),
      Image("ok", "PNG", OneFrame, PyDict(<<KV("prompt", PyStr(TxtGraphA))>>),
            [state |-> "file", text |-> TxtGraphB]) }

(***************************************************************************)
(* LoadImageWithMetadata                                                   *)
(***************************************************************************)
\* the outcome of a call of the Loader: the pair returned (image, metadata) or
\* the exception, and what the call did on the way: decoded (Image.open was
\* called), path (the file it was called on), extracted (the metadata of
\* _parse_png_metadata), sidecarTried (the parallel JSON file was looked for),
\* fallback (the metadata after that)
LoadResult(kind, image, metadata, decoded, path, extracted, sidecarTried, fallback) ==
    [kind |-> kind, image |-> image, metadata |-> metadata, decoded |-> decoded,
     path |-> path, extracted |-> extracted, sidecarTried |-> sidecarTried,
     fallback |-> fallback]
Placeholder ==
    [placeholder |-> TRUE, frames |-> <<[w |-> PlaceholderSide, h |-> PlaceholderSide]>>]
Batch(frames) == [placeholder |-> FALSE, frames |-> frames]

\* _create_error_output(error_message); decoded, path: what was tried before
CreateErrorOutput(error_message, decoded, path) ==
    LoadResult("returned", Placeholder, PyDict(<<KV("error", PyStr(error_message))>>),
               decoded, path, PyNone, FALSE, PyNone)
\* the call ended in an exception that reached the caller
LoadRaised ==
    LoadResult("raised", Placeholder, PyNone, FALSE, NoPath, PyNone, FALSE, PyNone)

RECURSIVE ParsePngMetadataFrom(_, _, _)
\* the loop of _parse_png_metadata from key i on
ParsePngMetadataFrom(raw_metadata, i, metadata) ==
    IF i > Len(raw_metadata.e) THEN metadata
    ELSE LET key == raw_metadata.e[i].k
             value == raw_metadata.e[i].v IN
      IF key \in {PyStr("prompt"), PyStr("workflow")}
      THEN ParsePngMetadataFrom(raw_metadata, i + 1,
             DictSet(metadata, key,
                     IF IsStr(value) /\ JsonLoads(value.s).ok
                     THEN JsonLoads(value.s).v ELSE value))
      ELSE IF key = PyStr("parameters")
      THEN ParsePngMetadataFrom(raw_metadata, i + 1, DictSet(metadata, key, value))
      ELSE ParsePngMetadataFrom(raw_metadata, i + 1, metadata)
\* _parse_png_metadata(raw_metadata)
ParsePngMetadata(raw_metadata) ==
    LET metadata == ParsePngMetadataFrom(raw_metadata, 1, PyDict(<<>>)) IN
    IF ~Truthy(metadata) THEN PyDict(<<KV("info", PyStr(NoWorkflow))>>) ELSE metadata

RECURSIVE KeptFramesFrom(_, _, _)
\* the frame loop from frame i on; output_images: the frames kept so far
KeptFramesFrom(frames, i, output_images) ==
    IF i > Len(frames) THEN output_images
    ELSE LET size == frames[i]
             first == IF Len(output_images) = 0 THEN size ELSE output_images[1] IN
      IF size.w # first.w \/ size.h # first.h
      THEN KeptFramesFrom(frames, i + 1, output_images)
      ELSE KeptFramesFrom(frames, i + 1, Append(output_images, size))
\* the frame loop comparing the widths alone
KeptFrames_WidthOnly(frames) == SelectSeq(frames, LAMBDA f : f.w = frames[1].w)
\* output_images after the loop over ImageSequence.Iterator(img)
KeptFrames(frames) == KeptFramesFrom(frames, 1, <<>>)

\* torch.cat of the frames kept, or the first of them
OutputImage(output_images, format) ==
    IF Len(output_images) > 1 /\ format \notin ExcludedFormats
    THEN Batch(output_images) ELSE Batch(<<output_images[1]>>)

\* whether the parallel JSON file is looked for
SidecarWanted(metadata) ==
    ~Truthy(metadata) \/ DictGet(metadata, PyStr("info"), PyNone) = PyStr(NoWorkflow)
\* the fallback with the metadata reset before the file is parsed
SidecarFallback_ClearsOnFailure(metadata, sidecar) ==
    IF SidecarWanted(metadata) /\ sidecar.state # "absent"
    THEN IF sidecar.state = "file" /\ JsonLoads(sidecar.text).ok
         THEN JsonLoads(sidecar.text).v
         ELSE PyDict(<<>>)
    ELSE metadata
\* the metadata after the parallel JSON file was tried
SidecarFallback(metadata, sidecar) ==
    IF SidecarWanted(metadata) /\ sidecar.state # "absent"
    THEN IF sidecar.state = "file" /\ JsonLoads(sidecar.text).ok
         THEN JsonLoads(sidecar.text).v
         ELSE metadata
    ELSE metadata

\* the injection by setdefault: keys that are there are kept
InjectPath_KeepExisting(metadata, image_path) ==
    IF IsDict(metadata)
    THEN LET with_path ==
               IF HasKey(metadata, PyStr("image_path")) THEN metadata
               ELSE DictSet(metadata, PyStr("image_path"), PyStr(PathStr(image_path))) IN
         IF HasKey(with_path, PyStr("image_filename")) THEN with_path
         ELSE DictSet(with_path, PyStr("image_filename"), PyStr(Basename(image_path)))
    ELSE metadata
\* metadata["image_path"] = ..., metadata["image_filename"] = ...
InjectPath(metadata, image_path) ==
    IF IsDict(metadata)
    THEN DictSet(DictSet(metadata, PyStr("image_path"), PyStr(PathStr(image_path))),
                 PyStr("image_filename"), PyStr(Basename(image_path)))
    ELSE metadata

\* _process_image_file(image_path), img being what the file system holds there
ProcessImageFile(image_path, img) ==
    IF img.open # "ok"
    THEN CreateErrorOutput("Error processing image: " \o img.open, TRUE, image_path)
    ELSE LET metadata == ParsePngMetadata(img.info)
             output_images == KeptFrames(img.frames) IN
      IF Len(output_images) = 0
      THEN CreateErrorOutput("Failed to load image frames", TRUE, image_path)
      ELSE LoadResult("returned", OutputImage(output_images, img.format),
                      InjectPath(SidecarFallback(metadata, img.sidecar), image_path),
                      TRUE, image_path, metadata, SidecarWanted(metadata),
                      SidecarFallback(metadata, img.sidecar))

RECURSIVE ScanFrom(_, _, _)
\* the os.walk loop from file i on; png_files: the (path, mtime) pairs so far
ScanFrom(walk, i, png_files) ==
    IF i > Len(walk) THEN [raised |-> FALSE, png_files |-> png_files]
    ELSE IF ~IsPngName(walk[i].path) THEN ScanFrom(walk, i + 1, png_files)
    ELSE IF walk[i].stat = "gone" THEN [raised |-> TRUE, png_files |-> png_files]
    ELSE ScanFrom(walk, i + 1,
                  Append(png_files, [path |-> walk[i].path, mtime |-> walk[i].mtime]))

\* x put into a list sorted newest first, behind the entries that are not older
InsertNewestFirst(sorted, x) ==
    LET n == Cardinality({i \in 1..Len(sorted) : sorted[i].mtime >= x.mtime}) IN
    SubSeq(sorted, 1, n) \o <<x>> \o SubSeq(sorted, n + 1, Len(sorted))
RECURSIVE SortFrom(_, _, _)
SortFrom(png_files, i, sorted) ==
    IF i > Len(png_files) THEN sorted
    ELSE SortFrom(png_files, i + 1, InsertNewestFirst(sorted, png_files[i]))
\* png_files.sort(key=lambda x: x[1], reverse=True): a stable sort
SortNewestFirst(png_files) == SortFrom(png_files, 1, <<>>)
\* the sort without reverse=True: the oldest file comes first
MostRecentFile_OldestFirst(png_files) ==
    SortNewestFirst(png_files)[Len(png_files)].path
\* png_files[0][0] after the sort
MostRecentFile(png_files) == SortNewestFirst(png_files)[1].path

\* load_image_with_metadata("direct_input"): walk is what os.walk yields, img
\* what the most recent file holds
LoadMostRecent(walk, img) ==
    LET scan == ScanFrom(walk, 1, <<>>) IN
    IF scan.raised THEN LoadRaised
    ELSE IF Len(scan.png_files) = 0
    THEN CreateErrorOutput("No PNG files found in output directory", FALSE, NoPath)
    ELSE ProcessImageFile(MostRecentFile(scan.png_files), img)

\* load_image_with_metadata("file", image_file); has_file is FALSE for None
LoadNamedFile(has_file, image_file, img) ==
    IF ~has_file THEN CreateErrorOutput("No image file specified", FALSE, NoPath)
    ELSE ProcessImageFile(AnnotatedFilepath(image_file), img)

\* what IS_CHANGED finds at the path: a file of some bytes, nothing, a file it
\* may not read, a directory
FileBytes == {<<>>, <<0>>, <<1>>}
FileStates ==
    {[state |-> "file", bytes |-> b] : b \in FileBytes}
    \cup {[state |-> s, bytes |-> <<>>] : s \in {"missing", "unreadable", "directory"}}
NaN == [kind |-> "nan", digest |-> <<>>]
\* hashlib.sha256(bytes).digest().hex(); the digest stands for the bytes it was
\* made of: two digests are equal exactly when the bytes are
Sha256Hex(bytes) == [kind |-> "hex", digest |-> bytes]
ChangeRaised == [kind |-> "raised", digest |-> <<>>]

\* IS_CHANGED(source_type, image_file); has_file is FALSE for None, file is what
\* open(image_path, 'rb') finds
IsChangedResult(source_type, has_file, file) ==
    IF source_type = "direct_input" THEN NaN
    ELSE IF source_type = "file" /\ has_file
    THEN CASE file.state = "file" -> Sha256Hex(file.bytes)
           [] file.state = "missing" -> NaN
           [] OTHER -> ChangeRaised
    ELSE NaN

(***************************************************************************)
(* FinalMetadataReporter.  An operation that may raise yields [raised, v]. *)
(***************************************************************************)
Ok(v) == [raised |-> FALSE, v |-> v]
Raised == [raised |-> TRUE, v |-> PyNone]
NA == PyStr("N/A")

\* k in x
PyContains(x, k) ==
    CASE x.t = "dict" -> Ok(PyBool(HasKey(x, k)))
      [] x.t = "list" -> Ok(PyBool(\E i \in 1..Len(x.e) : x.e[i].v = k))
      [] x.t = "str" -> IF IsStr(k) THEN Ok(PyBool(x.s = k.s)) ELSE Raised
      [] OTHER -> Raised
\* x[k]
PyItem(x, k) ==
    CASE x.t = "dict" -> IF HasKey(x, k) THEN Ok(Lookup(x, k)) ELSE Raised
      [] x.t = "list" -> IF k.t = "num" /\ k.n >= 0 /\ k.n < Len(x.e)
                         THEN Ok(x.e[k.n + 1].v) ELSE Raised
      [] OTHER -> Raised
\* x.get(k, default)
PyGet(x, k, default) == IF IsDict(x) THEN Ok(DictGet(x, k, default)) ELSE Raised
\* whether k can be a dict key at all
Hashable(k) == k.t \notin {"dict", "list"}
\* node.get('inputs', {})
InputsOf(node) == DictGet(node, PyStr("inputs"), PyDict(<<>>))
\* isinstance(node, dict) and node.get('class_type') == class_type
IsNodeOf(node, class_type) ==
    IsDict(node) /\ DictGet(node, PyStr("class_type"), PyNone) = PyStr(class_type)

\* key.replace('_', ' ').title(), for the keys of the model
Title(key) ==
    CASE key = "seed" -> "Seed"
      [] key = "steps" -> "Steps"
      [] key = "cfg" -> "Cfg"
      [] key = "sampler_name" -> "Sampler Name"
      [] key = "scheduler" -> "Scheduler"
      [] key = "denoise" -> "Denoise"
      [] key = "true_gs" -> "True Gs"
      [] key = "timestep_to_start_cfg" -> "Timestep To Start Cfg"
      [] key = "image_to_image_strength" -> "Image To Image Strength"
      [] key = "model_name" -> "Model Name"
      [] key = "controlnet_path" -> "Controlnet Path"
      [] key = "strength" -> "Strength"
      [] key = "low_threshold" -> "Low Threshold"
      [] key = "high_threshold" -> "High Threshold"
      [] key = "resolution" -> "Resolution"
      [] key = "adapter" -> "Adapter"
      [] key = "clip_vision" -> "Clip Vision"
      [] key = "provider" -> "Provider"
      [] key = "ip_scale" -> "Ip Scale"
      [] key = "image_path" -> "Image Path"
      [] key = "image_filename" -> "Image Filename"
      [] key = "info" -> "Info"
      [] key = "error" -> "Error"
      [] key = "parameters" -> "Parameters"
      [] key = "tags" -> "Tags"
      [] key = "extra" -> "Extra"
      [] OTHER -> key

\* one line of a report: f"{label}: {v}", the value kept as it is; how tells
\* the way the value is written
Line(label, v, how) == [label |-> label, v |-> v, how |-> how]
Heading(label) == Line(label, PyNone, "text")

\* _get_nodes_dict(metadata_dict); None is PyNone
GetNodesDict(metadata_dict) ==
    LET prompt == DictGet(metadata_dict, PyStr("prompt"), PyNone)
        workflow == DictGet(metadata_dict, PyStr("workflow"), PyNone)
        nodes == DictGet(metadata_dict, PyStr("nodes"), PyNone)
        workflow_data == JsonLoads(workflow.s)
        ByNodes == IF HasKey(metadata_dict, PyStr("nodes")) /\ nodes.t \in {"dict", "list"}
                   THEN nodes ELSE PyNone
        \* the nodes of a workflow mapping, or the mapping
        NodesOrWhole(w) == IF HasKey(w, PyStr("nodes")) THEN Lookup(w, PyStr("nodes")) ELSE w
        ByWorkflow ==
            IF ~HasKey(metadata_dict, PyStr("workflow")) THEN ByNodes
            ELSE IF IsDict(workflow) THEN NodesOrWhole(workflow)
            ELSE IF IsStr(workflow) /\ workflow_data.ok /\ IsDict(workflow_data.v)
            THEN NodesOrWhole(workflow_data.v)
            ELSE ByNodes
    IN IF ~HasKey(metadata_dict, PyStr("prompt")) THEN ByWorkflow
       ELSE IF IsDict(prompt) THEN prompt
       ELSE IF IsStr(prompt) /\ JsonLoads(prompt.s).ok THEN JsonLoads(prompt.s).v
       ELSE ByWorkflow

RECURSIVE FormatDirectFrom(_, _, _)
\* the loop of _format_direct_image_metadata from entry i on
FormatDirectFrom(metadata, i, output_lines) ==
    IF i > Len(metadata.e) THEN Ok(output_lines)
    ELSE LET key == metadata.e[i].k
             value == metadata.e[i].v IN
      IF ~IsStr(key) THEN Raised
      ELSE FormatDirectFrom(metadata, i + 1,
             Append(output_lines,
                IF IsDict(value) THEN Line(Title(key.s), value, "json")
                ELSE IF IsList(value)
                THEN IF Len(value.e) > 5
                     THEN Line(Title(key.s), PyList(SubSeq(value.e, 1, 5)), "first five")
                     ELSE Line(Title(key.s), value, "str")
                ELSE Line(Title(key.s), value, "str")))
\* _format_direct_image_metadata(metadata): the lines joined, or the exception
FormatDirectImageMetadata(metadata) ==
    FormatDirectFrom(metadata, 1, <<Heading("--- Image Metadata ---")>>)

RECURSIVE ModelNameFrom(_, _)
\* the loop of _extract_model_name from node i on
ModelNameFrom(nodes_dict, i) ==
    IF i > Len(nodes_dict.e) THEN Ok(NA)
    ELSE LET node == nodes_dict.e[i].v IN
      IF IsNodeOf(node, "CheckpointLoaderSimple") /\ HasKey(node, PyStr("inputs"))
      THEN LET inputs == Lookup(node, PyStr("inputs"))
               has == PyContains(inputs, PyStr("ckpt_name")) IN
           IF has.raised THEN Raised
           ELSE IF Truthy(has.v) THEN PyItem(inputs, PyStr("ckpt_name"))
           ELSE ModelNameFrom(nodes_dict, i + 1)
      ELSE ModelNameFrom(nodes_dict, i + 1)
\* _extract_model_name(nodes_dict)
ExtractModelName(nodes_dict) ==
    IF ~IsDict(nodes_dict) THEN Raised ELSE ModelNameFrom(nodes_dict, 1)

\* key.startswith('lora_'), for the keys of the model
StartsWithLora(key) == key \in {"lora_", "lora_1", "lora_2", "lora_3"}
RECURSIVE LorasOfInputs(_, _, _)
\* the loop over the inputs of the LoRA node from input i on
LorasOfInputs(inputs, i, loras) ==
    IF i > Len(inputs.e) THEN Ok(PyList(loras))
    ELSE LET key == inputs.e[i].k
             value == inputs.e[i].v IN
      IF ~IsStr(key) THEN Raised
      ELSE IF StartsWithLora(key.s) /\ IsDict(value)
              /\ Truthy(DictGet(value, PyStr("on"), PyBool(FALSE)))
      THEN LorasOfInputs(inputs, i + 1,
             Append(loras,
                Item(PyDict(<<KV("name", DictGet(value, PyStr("lora"), NA)),
                              KV("strength", DictGet(value, PyStr("strength"), NA))>>))))
      ELSE LorasOfInputs(inputs, i + 1, loras)
RECURSIVE LorasFrom_AllNodes(_, _)
\* the loop without its break: every LoRA node adds its entries
LorasFrom_AllNodes(nodes_dict, i) ==
    IF i > Len(nodes_dict.e) THEN Ok(PyList(<<>>))
    ELSE LET node == nodes_dict.e[i].v
             rest == LorasFrom_AllNodes(nodes_dict, i + 1) IN
      IF IsNodeOf(node, "Power Lora Loader (rgthree)") /\ IsDict(InputsOf(node))
      THEN LET here == LorasOfInputs(InputsOf(node), 1, <<>>) IN
           IF here.raised \/ rest.raised THEN Raised
           ELSE Ok(PyList(here.v.e \o rest.v.e))
      ELSE rest
RECURSIVE LorasFrom(_, _)
\* the loop of _extract_loras from node i on: the first LoRA node ends it
LorasFrom(nodes_dict, i) ==
    IF i > Len(nodes_dict.e) THEN Ok(PyList(<<>>))
    ELSE LET node == nodes_dict.e[i].v IN
      IF IsNodeOf(node, "Power Lora Loader (rgthree)")
      THEN IF IsDict(InputsOf(node)) THEN LorasOfInputs(InputsOf(node), 1, <<>>) ELSE Raised
      ELSE LorasFrom(nodes_dict, i + 1)
\* _extract_loras(nodes_dict)
ExtractLoras(nodes_dict) ==
    IF ~IsDict(nodes_dict) THEN Raised ELSE LorasFrom(nodes_dict, 1)

\* f"{width}x{height}"
WidthByHeight(width, height) ==
    PyDict(<<KV("width", width), KV("height", height)>>)
RECURSIVE ImageScaleFrom(_, _)
\* the second loop of _extract_resolution from node i on
ImageScaleFrom(nodes_dict, i) ==
    IF i > Len(nodes_dict.e) THEN Ok(PyNone)
    ELSE LET node == nodes_dict.e[i].v
             inputs == InputsOf(node) IN
      IF IsNodeOf(node, "ImageScale")
      THEN IF ~IsDict(inputs) THEN Raised
           ELSE IF Truthy(DictGet(inputs, PyStr("width"), PyNone))
                   /\ Truthy(DictGet(inputs, PyStr("height"), PyNone))
           THEN Ok(WidthByHeight(Lookup(inputs, PyStr("width")),
                                 Lookup(inputs, PyStr("height"))))
           ELSE ImageScaleFrom(nodes_dict, i + 1)
      ELSE ImageScaleFrom(nodes_dict, i + 1)
RECURSIVE CascadeFrom(_, _)
\* the first loop of _extract_resolution from node i on
CascadeFrom(nodes_dict, i) ==
    IF i > Len(nodes_dict.e) THEN ImageScaleFrom(nodes_dict, 1)
    ELSE LET node == nodes_dict.e[i].v IN
      IF IsNodeOf(node, "CascadeResolutions") /\ HasKey(node, PyStr("inputs"))
      THEN LET inputs == Lookup(node, PyStr("inputs"))
               has == PyContains(inputs, PyStr("size_selected")) IN
           IF has.raised THEN Raised
           ELSE IF Truthy(has.v) THEN PyItem(inputs, PyStr("size_selected"))
           ELSE CascadeFrom(nodes_dict, i + 1)
      ELSE CascadeFrom(nodes_dict, i + 1)
\* _extract_resolution(nodes_dict)
ExtractResolution(nodes_dict) ==
    IF ~IsDict(nodes_dict) THEN Raised ELSE CascadeFrom(nodes_dict, 1)

Prompts(pos_prompt, t5xxl_prompt) == [pos_prompt |-> pos_prompt, t5xxl_prompt |-> t5xxl_prompt]
RECURSIVE PromptsFrom(_, _)
\* the loop of _extract_prompts from node i on
PromptsFrom(nodes_dict, i) ==
    IF i > Len(nodes_dict.e) THEN [raised |-> FALSE, v |-> Prompts(NA, PyNone)]
    ELSE LET node == nodes_dict.e[i].v
             inputs == InputsOf(node) IN
      IF IsNodeOf(node, "CLIPTextEncodeFlux")
      THEN IF ~IsDict(inputs) THEN [raised |-> TRUE, v |-> Prompts(NA, PyNone)]
           ELSE IF DictGet(inputs, PyStr("clip_l"), PyNone) = PyStr("")
           THEN PromptsFrom(nodes_dict, i + 1)
           ELSE IF HasKey(inputs, PyStr("clip_l"))
           THEN [raised |-> FALSE,
                 v |-> Prompts(Lookup(inputs, PyStr("clip_l")),
                               DictGet(inputs, PyStr("t5xxl"), PyNone))]
           ELSE PromptsFrom(nodes_dict, i + 1)
      ELSE PromptsFrom(nodes_dict, i + 1)
\* _extract_prompts(nodes_dict)
ExtractPrompts(nodes_dict) ==
    IF ~IsDict(nodes_dict) THEN [raised |-> TRUE, v |-> Prompts(NA, PyNone)]
    ELSE PromptsFrom(nodes_dict, 1)

\* the seed with an unresolved reference reported as it is
SamplerSeed_RawReference(nodes_dict, inputs) ==
    LET seed_link == DictGet(inputs, PyStr("seed"), PyNone) IN
    IF IsList(seed_link) /\ Len(seed_link.e) >= 1
    THEN LET seed_node_id == seed_link.e[1].v
             seed_node == DictGet(nodes_dict, seed_node_id, PyNone) IN
         IF ~Hashable(seed_node_id) THEN Raised
         ELSE IF ~Truthy(seed_node) THEN Ok(seed_link)
         ELSE IF ~IsDict(seed_node) THEN Raised
         ELSE IF DictGet(seed_node, PyStr("class_type"), PyNone) = PyStr("Seed Everywhere")
         THEN PyGet(InputsOf(seed_node), PyStr("seed"), NA)
         ELSE Ok(seed_link)
    ELSE Ok(DictGet(inputs, PyStr("seed"), NA))
\* the seed a KSampler reports: inputs are the sampler's inputs
SamplerSeed(nodes_dict, inputs) ==
    LET seed_link == DictGet(inputs, PyStr("seed"), PyNone) IN
    IF IsList(seed_link) /\ Len(seed_link.e) >= 1
    THEN LET seed_node_id == seed_link.e[1].v
             seed_node == DictGet(nodes_dict, seed_node_id, PyNone) IN
         IF ~Hashable(seed_node_id) THEN Raised
         ELSE IF ~Truthy(seed_node) THEN Ok(NA)
         ELSE IF ~IsDict(seed_node) THEN Raised
         ELSE IF DictGet(seed_node, PyStr("class_type"), PyNone) = PyStr("Seed Everywhere")
         THEN PyGet(InputsOf(seed_node), PyStr("seed"), NA)
         ELSE Ok(NA)
    ELSE Ok(DictGet(inputs, PyStr("seed"), NA))

\* sampler_info of the KSampler with these inputs
KSamplerInfo(nodes_dict, inputs) ==
    LET seed == SamplerSeed(nodes_dict, inputs) IN
    IF ~IsDict(inputs) \/ seed.raised THEN Raised
    ELSE Ok(PyDict(<<KV("seed", seed.v),
                     KV("steps", DictGet(inputs, PyStr("steps"), NA)),
                     KV("cfg", DictGet(inputs, PyStr("cfg"), NA)),
                     KV("sampler_name", DictGet(inputs, PyStr("sampler_name"), NA)),
                     KV("scheduler", DictGet(inputs, PyStr("scheduler"), NA)),
                     KV("denoise", DictGet(inputs, PyStr("denoise"), NA))>>))
\* sampler_info of the XlabsSampler with these inputs
XlabsSamplerInfo(inputs) ==
    IF ~IsDict(inputs) THEN Raised
    ELSE Ok(PyDict(<<KV("seed", DictGet(inputs, PyStr("noise_seed"), NA)),
                     KV("steps", DictGet(inputs, PyStr("steps"), NA)),
                     KV("true_gs", DictGet(inputs, PyStr("true_gs"), NA)),
                     KV("timestep_to_start_cfg",
                        DictGet(inputs, PyStr("timestep_to_start_cfg"), NA)),
                     KV("image_to_image_strength",
                        DictGet(inputs, PyStr("image_to_image_strength"), NA)),
                     KV("denoise", DictGet(inputs, PyStr("denoise_strength"), NA))>>))
RECURSIVE XlabsFrom(_, _)
\* the second loop of _extract_sampler_info from node i on
XlabsFrom(nodes_dict, i) ==
    IF i > Len(nodes_dict.e) THEN Ok(PyNone)
    ELSE IF IsNodeOf(nodes_dict.e[i].v, "XlabsSampler")
    THEN XlabsSamplerInfo(InputsOf(nodes_dict.e[i].v))
    ELSE XlabsFrom(nodes_dict, i + 1)
RECURSIVE KSamplerFrom(_, _)
\* the first loop of _extract_sampler_info from node i on
KSamplerFrom(nodes_dict, i) ==
    IF i > Len(nodes_dict.e) THEN XlabsFrom(nodes_dict, 1)
    ELSE IF IsNodeOf(nodes_dict.e[i].v, "KSampler")
    THEN KSamplerInfo(nodes_dict, InputsOf(nodes_dict.e[i].v))
    ELSE KSamplerFrom(nodes_dict, i + 1)
\* _extract_sampler_info(nodes_dict)
ExtractSamplerInfo(nodes_dict) ==
    IF ~IsDict(nodes_dict) THEN Raised ELSE KSamplerFrom(nodes_dict, 1)

\* info with the fields copied from inputs: fields is a sequence of
\* <<key of info, key of inputs>>
RECURSIVE WithFields(_, _, _, _)
WithFields(info, inputs, fields, i) ==
    IF i > Len(fields) THEN info
    ELSE WithFields(DictSet(info, PyStr(fields[i][1]),
                            DictGet(inputs, PyStr(fields[i][2]), NA)),
                    inputs, fields, i + 1)
\* the fields a node of the ControlNet family gives
ControlNetFields(node) ==
    CASE IsNodeOf(node, "LoadFluxControlNet") ->
           <<(<<"model_name", "model_name">>), (<<"controlnet_path", "controlnet_path">>)>>
      [] IsNodeOf(node, "ApplyFluxControlNet") -> <<(<<"strength", "strength">>)>>
      [] IsNodeOf(node, "CannyEdgePreprocessor") ->
           <<(<<"low_threshold", "low_threshold">>), (<<"high_threshold", "high_threshold">>),
             (<<"resolution", "resolution">>)>>
      [] OTHER -> <<>>
\* the fields a node of the IPAdapter family gives
IPAdapterFields(node) ==
    CASE IsNodeOf(node, "LoadFluxIPAdapter") ->
           <<(<<"adapter", "ipadatper">>), (<<"clip_vision", "clip_vision">>),
             (<<"provider", "provider">>)>>
      [] IsNodeOf(node, "ApplyFluxIPAdapter") -> <<(<<"ip_scale", "ip_scale">>)>>
      [] OTHER -> <<>>
RECURSIVE ControlNetFrom(_, _, _)
\* the ControlNet loop of _extract_additional_components from node i on
ControlNetFrom(nodes_dict, i, controlnet_info) ==
    IF i > Len(nodes_dict.e) THEN Ok(controlnet_info)
    ELSE LET node == nodes_dict.e[i].v
             fields == ControlNetFields(node) IN
      IF fields = <<>> THEN ControlNetFrom(nodes_dict, i + 1, controlnet_info)
      ELSE IF ~IsDict(InputsOf(node)) THEN Raised
      ELSE ControlNetFrom(nodes_dict, i + 1,
                          WithFields(controlnet_info, InputsOf(node), fields, 1))
RECURSIVE IPAdapterFrom(_, _, _)
\* the IPAdapter loop of _extract_additional_components from node i on
IPAdapterFrom(nodes_dict, i, ipadapter_info) ==
    IF i > Len(nodes_dict.e) THEN Ok(ipadapter_info)
    ELSE LET node == nodes_dict.e[i].v
             fields == IPAdapterFields(node) IN
      IF fields = <<>> THEN IPAdapterFrom(nodes_dict, i + 1, ipadapter_info)
      ELSE IF ~IsDict(InputsOf(node)) THEN Raised
      ELSE IPAdapterFrom(nodes_dict, i + 1,
                         WithFields(ipadapter_info, InputsOf(node), fields, 1))
\* _extract_additional_components(nodes_dict)
ExtractAdditionalComponents(nodes_dict) ==
    IF ~IsDict(nodes_dict) THEN Raised
    ELSE LET controlnet_info == ControlNetFrom(nodes_dict, 1, PyDict(<<>>))
             ipadapter_info == IPAdapterFrom(nodes_dict, 1, PyDict(<<>>)) IN
      IF controlnet_info.raised \/ ipadapter_info.raised THEN Raised
      ELSE Ok(PyDict(
             (IF Truthy(controlnet_info.v)
              THEN <<KV("ControlNet Details", controlnet_info.v)>> ELSE <<>>)
             \o (IF Truthy(ipadapter_info.v)
                 THEN <<KV("IPAdapter Details", ipadapter_info.v)>> ELSE <<>>)))

\* one line for each entry of info
InfoLines(info) == [i \in 1..Len(info.e) |-> Line(Title(info.e[i].k.s), info.e[i].v, "str")]
\* the lines of the LoRA section
LoraLines(loras) ==
    IF ~Truthy(loras) THEN <<>>
    ELSE <<Heading("LoRAs:")>> \o [i \in 1..Len(loras.e) |-> Line("  - ", loras.e[i].v, "lora")]
\* the lines of the sampler section
SamplerLines(sampler_info) ==
    IF ~Truthy(sampler_info) THEN <<>>
    ELSE <<Heading("--- Sampler Details ---")>> \o InfoLines(sampler_info)
RECURSIVE ComponentLines(_, _)
\* the lines of the components from component i on
ComponentLines(components, i) ==
    IF i > Len(components.e) THEN <<>>
    ELSE (IF Truthy(components.e[i].v)
          THEN <<Heading("--- " \o components.e[i].k.s \o " ---")>>
               \o InfoLines(components.e[i].v)
          ELSE <<>>)
         \o ComponentLines(components, i + 1)
\* what the except clause of _parse_and_format appends
ErrorLine == Line("Error during metadata parsing", PyNone, "str")

\* _parse_and_format(nodes_dict): the lines that are joined
ParseAndFormat(nodes_dict) ==
    LET header == <<Heading("--- Workflow Metadata Report ---")>>
        model_name == ExtractModelName(nodes_dict)
        with_model == Append(header, Line("Model", model_name.v, "str"))
        loras == ExtractLoras(nodes_dict)
        with_loras == with_model \o LoraLines(loras.v)
        resolution == ExtractResolution(nodes_dict)
        with_resolution ==
            with_loras \o (IF Truthy(resolution.v)
                           THEN <<Line("Resolution", resolution.v, "str")>> ELSE <<>>)
        prompts == ExtractPrompts(nodes_dict)
        with_prompts ==
            with_resolution
            \o <<Line("Positive Prompt", prompts.v.pos_prompt, "str")>>
            \o (IF Truthy(prompts.v.t5xxl_prompt)
                THEN <<Line("T5XXL Prompt", prompts.v.t5xxl_prompt, "str")>> ELSE <<>>)
            \o <<Line("Negative Prompt", PyStr("(Empty)"), "str")>>
        sampler_info == ExtractSamplerInfo(nodes_dict)
        with_sampler == with_prompts \o SamplerLines(sampler_info.v)
        additional_components == ExtractAdditionalComponents(nodes_dict)
    IN IF model_name.raised THEN Append(header, ErrorLine)
       ELSE IF loras.raised THEN Append(with_model, ErrorLine)
       ELSE IF resolution.raised THEN Append(with_loras, ErrorLine)
       ELSE IF prompts.raised THEN Append(with_resolution, ErrorLine)
       ELSE IF sampler_info.raised THEN Append(with_prompts, ErrorLine)
       ELSE IF additional_components.raised THEN Append(with_sampler, ErrorLine)
       ELSE with_sampler \o ComponentLines(additional_components.v, 1)

ReportResult(kind, branch, text, looked, nodes_dict) ==
    [kind |-> kind, branch |-> branch, text |-> text, looked |-> looked,
     nodes_dict |-> nodes_dict]
\* list(metadata.keys())[:10]
FirstTenKeys(metadata) == SubSeq(Keys(metadata), 1, Min(10, Len(metadata.e)))

\* report_metadata(metadata): the text returned, or the exception
ReportMetadata(metadata) ==
    IF ~Truthy(metadata) \/ ~IsDict(metadata)
    THEN ReportResult("returned", "invalid",
                      <<Heading("Metadata report: No valid metadata was provided.")>>,
                      FALSE, PyNone)
    ELSE LET nodes_dict == GetNodesDict(metadata) IN
      IF ~Truthy(nodes_dict)
      THEN IF IsDict(metadata) /\ Len(metadata.e) > 0
           THEN LET direct == FormatDirectImageMetadata(metadata) IN
                IF direct.raised
                THEN ReportResult("raised", "direct", <<>>, TRUE, nodes_dict)
                ELSE ReportResult("returned", "direct", direct.v, TRUE, nodes_dict)
           ELSE ReportResult("returned", "no nodes",
                  <<Line("Could not find workflow node structure in metadata.",
                         PyList([i \in 1..Len(FirstTenKeys(metadata)) |->
                                   Item(FirstTenKeys(metadata)[i])]), "keys")>>,
                  TRUE, nodes_dict)
      ELSE ReportResult("returned", "graph", ParseAndFormat(nodes_dict), TRUE, nodes_dict)

(***************************************************************************)
(* The metadata the host hands to the Reporter.                            *)
(***************************************************************************)
MaxNodes == 2

Node(class_type, inputs) ==
    PyDict(<<KV("class_type", PyStr(class_type)), KV("inputs", inputs)>>)
\* [node_id, output_index]
Ref(node_id, output_index) == PyList(<<Item(node_id), Item(PyNum(output_index))>>)
\* a dict of the entries that are present: opt is a sequence of <<present, entry>>
RECURSIVE Present(_)
Present(opt) ==
    IF opt = <<>> THEN <<>>
    ELSE (IF opt[1][1] THEN <<opt[1][2]>> ELSE <<>>) \o Present(Tail(opt))
Absent == [k |-> PyNone, v |-> PyNone]
\* the entry of key for value v, or no entry for Absent
Opt(key, v) == <<v # Absent, KV(key, v)>>

\* the seed input of the KSampler of a graph
SeedInputs ==
    { Absent, PyNum(7), Ref(PyStr("5"), 0), Ref(PyStr("6"), 0), Ref(PyNum(5), 0),
      PyList(<<>>), PyList(<<Item(PyStr("5"))>>), Ref(PyList(<<Item(PyStr("5"))>>), 0) }
\* what a graph has as node "5"
SeedTargets ==
    { Absent,
      Node("Seed Everywhere", PyDict(<<KV("seed", PyNum(42))>>)),
      Node("Seed Everywhere", PyDict(<<KV("seed", Ref(PyStr("6"), 0))>>)),
      Node("Seed Everywhere", PyDict(<<>>)),
      Node("Seed Everywhere", PyNone),
      PyDict(<<KV("class_type", PyStr("Seed Everywhere"))>>),
      Node("PrimitiveInt", PyDict(<<KV("seed", PyNum(42))>>)),
      PyDict(<<KV("inputs", PyDict(<<KV("seed", PyNum(42))>>))>>),
      PyStr("note"),
      PyNone }
\* what a graph has as node "6"
SecondTargets == {Absent, Node("Seed Everywhere", PyDict(<<KV("seed", PyNum(43))>>))}
\* a graph of a KSampler "3" and the nodes its seed may refer to
SeedGraph(seed, target, second, sampler_first) ==
    LET sampler == Node("KSampler",
                        PyDict(Present(<<Opt("seed", seed), Opt("steps", PyNum(20))>>))) IN
    PyDict(Present(<<Opt("3", IF sampler_first THEN sampler ELSE Absent),
                     Opt("5", target), Opt("6", second),
                     Opt("3", IF sampler_first THEN Absent ELSE sampler)>>))
SeedGraphs ==
    {SeedGraph(seed, target, second, first) :
       seed \in SeedInputs, target \in SeedTargets, second \in SecondTargets,
       first \in BOOLEAN}

\* the nodes of the other graphs
NodeKinds ==
    { Node("CheckpointLoaderSimple", PyDict(<<KV("ckpt_name", PyStr("foo.safetensors"))>>)),
      Node("CheckpointLoaderSimple", PyDict(<<KV("ckpt_name", PyStr("bar.safetensors"))>>)),
      Node("CheckpointLoaderSimple", PyDict(<<>>)),
      Node("CheckpointLoaderSimple", PyNone),
      Node("Power Lora Loader (rgthree)",
           PyDict(<<KV("lora_1", PyDict(<<KV("on", PyBool(TRUE)), KV("lora", PyStr("l1")),
                                          KV("strength", PyNum(1))>>)),
                    KV("lora_2", PyDict(<<KV("on", PyBool(FALSE)), KV("lora", PyStr("l2")),
                                          KV("strength", PyNum(2))>>))>>)),
      Node("Power Lora Loader (rgthree)", PyDict(<<KV("model", Ref(PyStr("1"), 0))>>)),
      Node("CascadeResolutions", PyDict(<<KV("size_selected", PyStr("1024x1024"))>>)),
      Node("ImageScale", PyDict(<<KV("width", PyNum(512)), KV("height", PyNum(768))>>)),
      Node("ImageScale", PyDict(<<KV("width", PyNum(512))>>)),
      Node("CLIPTextEncodeFlux", PyDict(<<KV("clip_l", PyStr(""))>>)),
      Node("CLIPTextEncodeFlux",
           PyDict(<<KV("clip_l", PyStr("a cat")), KV("t5xxl", PyStr("a photo of a cat"))>>)),
      Node("KSampler", PyDict(<<KV("seed", PyNum(7)), KV("steps", PyNum(20))>>)),
      Node("XlabsSampler", PyDict(<<KV("noise_seed", PyNum(9))>>)),
      Node("LoadFluxControlNet", PyDict(<<KV("model_name", PyStr("flux-canny"))>>)),
      Node("ApplyFluxControlNet", PyDict(<<KV("strength", PyNum(1))>>)),
      Node("LoadFluxIPAdapter", PyDict(<<KV("ipadatper", PyStr("ip.safetensors"))>>)),
      Node("ApplyFluxIPAdapter", PyNone),
      PyStr("note") }
NodeId(i) == CASE i = 1 -> "1" [] i = 2 -> "2" [] i = 3 -> "3" [] i = 4 -> "4" [] OTHER -> "n"
\* the graphs of at most MaxNodes of these nodes, keyed "1", "2", ...
Graphs ==
    UNION {{PyDict([i \in 1..n |-> KV(NodeId(i), f[i])]) : f \in [1..n -> NodeKinds]} :
           n \in 1..MaxNodes}

GraphA == PyDict(<<KV("1", PyDict(<<KV("class_type", PyStr("A"))>>))>>)
GraphB == PyDict(<<KV("2", PyDict(<<KV("class_type", PyStr("B"))>>))>>)
GraphC == PyDict(<<KV("3", PyDict(<<KV("class_type", PyStr("C"))>>))>>)
GraphD == PyDict(<<KV("4", PyDict(<<KV("class_type", PyStr("D"))>>))>>)
\* what metadata may hold under prompt, workflow and nodes
PromptValues ==
    { Absent, GraphA, PyDict(<<>>), PyStr(TxtGraphA), PyStr(TxtNull), PyStr(TxtNum),
      PyStr(TxtStr), PyStr(TxtList), PyStr(TxtTruncated), PyList(<<Item(GraphA)>>) }
WorkflowValues ==
    { Absent, GraphB, PyDict(<<KV("nodes", GraphC)>>), PyDict(<<KV("nodes", PyNum(5))>>),
      PyStr(TxtGraphB), PyStr(TxtNodesWrap), PyStr(TxtList), PyStr(TxtTruncated),
      PyNum(5) }
NodesValues == {Absent, GraphD, PyList(<<Item(PyDict(<<KV("type", PyStr("D"))>>))>>),
                PyStr("none")}
\* metadata that differs in where the graph is
SourceMetas ==
    {PyDict(Present(<<Opt("prompt", p), Opt("workflow", w), Opt("nodes", n),
                      Opt("image_filename", PyStr("up.png"))>>)) :
       p \in PromptValues, w \in WorkflowValues, n \in NodesValues}
\* metadata without a graph, and values that are no metadata
OtherMetas ==
    { PyNone, PyDict(<<>>), PyStr("text"), PyNum(5), PyList(<<Item(PyNum(1))>>),
      PyDict(<<KV("info", PyStr(NoWorkflow)), KV("image_path", PyStr("input/up.png")),
               KV("image_filename", PyStr("up.png"))>>),
      PyDict(<<KV("error", PyStr("No image file specified"))>>),
      PyDict(<<KV("parameters", PyStr(TxtFree)), KV("extra", PyDict(<<KV("k", PyNum(1))>>)),
               KV("tags", PyList([i \in 1..6 |-> Item(PyNum(i))]))>>),
      PyDict(<<KV("tags", PyList(<<Item(PyNum(1))>>))>>),
      PyDict(<<Entry(PyNum(1), PyStr("x"))>>),
      PyDict(<<KV("info", PyStr("x")), Entry(PyNone, PyStr("x"))>>) }
\* an entry of the inputs of a LoRA node
Lora(on, lora, strength) ==
    PyDict(Present(<<Opt("on", on), Opt("lora", lora), Opt("strength", strength)>>))
\* the LoRA nodes of the graphs with several of them
LoraNodes ==
    { Node("Power Lora Loader (rgthree)",
           PyDict(<<KV("lora_1", Lora(PyBool(TRUE), PyStr("l1"), PyNum(1))),
                    KV("lora_2", Lora(PyBool(FALSE), PyStr("l2"), PyNum(2)))>>)),
      Node("Power Lora Loader (rgthree)",
           PyDict(<<KV("lora_1", Lora(PyBool(TRUE), PyStr("l3"), PyNum(3))),
                    KV("lora_2", Lora(PyBool(TRUE), PyStr("l4"), Absent))>>)),
      Node("Power Lora Loader (rgthree)",
           PyDict(<<KV("model", Ref(PyStr("1"), 0)),
                    KV("header", Lora(PyBool(TRUE), PyStr("l5"), PyNum(5))),
                    KV("lora_", Lora(Absent, PyStr("l6"), PyNum(6))),
                    KV("lora_3", PyStr("l7"))>>)),
      Node("Power Lora Loader (rgthree)", PyDict(<<>>)),
      PyDict(<<KV("class_type", PyStr("Power Lora Loader (rgthree)"))>>),
      Node("CheckpointLoaderSimple", PyDict(<<KV("ckpt_name", PyStr("foo.safetensors"))>>)) }
\* the graphs of two of these nodes
LoraGraphs ==
    {PyDict(<<KV("1", a), KV("2", b)>>) : a \in LoraNodes, b \in LoraNodes}

\* the nodes of the ControlNet and IPAdapter families
ComponentNodes ==
    { Node("LoadFluxControlNet", PyDict(<<KV("model_name", PyStr("flux-canny"))>>)),
      Node("LoadFluxControlNet",
           PyDict(<<KV("model_name", PyStr("flux-depth")),
                    KV("controlnet_path", PyStr("depth.safetensors"))>>)),
      Node("ApplyFluxControlNet", PyDict(<<KV("strength", PyNum(1))>>)),
      Node("CannyEdgePreprocessor",
           PyDict(<<KV("low_threshold", PyNum(100)), KV("high_threshold", PyNum(200)),
                    KV("resolution", PyNum(512))>>)),
      Node("LoadFluxIPAdapter",
           PyDict(<<KV("ipadatper", PyStr("ip.safetensors")),
                    KV("clip_vision", PyStr("clip.safetensors"))>>)),
      Node("LoadFluxIPAdapter", PyDict(<<KV("provider", PyStr("GPU"))>>)),
      Node("ApplyFluxIPAdapter", PyDict(<<KV("ip_scale", PyNum(1))>>)),
      Node("ApplyFluxIPAdapter", PyDict(<<KV("ip_scale", PyNum(2))>>)) }
\* the graphs of two of these nodes
ComponentGraphs ==
    {PyDict(<<KV("1", a), KV("2", b)>>) : a \in ComponentNodes, b \in ComponentNodes}

ReportInputs ==
    SourceMetas \cup OtherMetas
    \cup {PyDict(<<KV("prompt", g)>>) :
            g \in SeedGraphs \cup Graphs \cup LoraGraphs \cup ComponentGraphs}

Init ==
    /\ pc = "idle"
    /\ op = "none"
    /\ arg = PyNone
    /\ ret = PyNone

\* the host is done with the outcome of the call
Return ==
    /\ pc = "done"
    /\ pc' = "idle"
    /\ op' = "none"
    /\ arg' = PyNone
    /\ ret' = PyNone

\* the host runs the Loader in "direct_input" mode
LoadDirect ==
    /\ pc = "idle"
    /\ \E walk \in Walks, img \in DirectContents :
         /\ arg' = [source_type |-> "direct_input", has_file |-> FALSE,
                    image_file |-> NoPath, walk |-> walk, img |-> img]
         /\ ret' = LoadMostRecent(walk, img)
    /\ op' = "load"
    /\ pc' = "done"

\* the host runs the Loader in "file" mode
LoadFile ==
    /\ pc = "idle"
    /\ \E has_file \in BOOLEAN, image_file \in ImageFiles, img \in Contents :
         /\ has_file \/ img = CHOOSE c \in Contents : TRUE
         /\ arg' = [source_type |-> "file", has_file |-> has_file,
                    image_file |-> IF has_file THEN image_file ELSE NoPath,
                    walk |-> <<>>, img |-> img]
         /\ ret' = LoadNamedFile(has_file, image_file, img)
    /\ op' = "load"
    /\ pc' = "done"

\* the host asks the Loader whether its output may be reused
IsChanged ==
    /\ pc = "idle"
    /\ \E source_type \in {"direct_input", "file"}, has_file \in BOOLEAN,
          file \in FileStates :
         /\ arg' = [source_type |-> source_type, has_file |-> has_file, file |-> file]
         /\ ret' = IsChangedResult(source_type, has_file, file)
    /\ op' = "is_changed"
    /\ pc' = "done"

\* the host runs the Reporter
Report ==
    /\ pc = "idle"
    /\ \E metadata \in ReportInputs :
         /\ arg' = metadata
         /\ ret' = ReportMetadata(metadata)
    /\ op' = "report"
    /\ pc' = "done"

Next == LoadDirect \/ LoadFile \/ IsChanged \/ Report \/ Return

Spec == Init /\ [][Next]_vars

(***************************************************************************)
(* _parse_and_format step by step: one step for each extraction call and   *)
(* the appends that follow it.  pc is the step to come, arg is nodes_dict  *)
(* and ret is output_lines.                                                *)
(***************************************************************************)
\* the except clause that forgets the lines of the report
Failed_LosesLines(output_lines) == <<ErrorLine>>
\* the except clause: the error line comes after the lines that are there
Failed(output_lines) == Append(output_lines, ErrorLine)

\* the graphs report_metadata hands to _parse_and_format
FormatInputs ==
    {GetNodesDict(m) : m \in {x \in ReportInputs : IsDict(x) /\ Truthy(GetNodesDict(x))}}

\* the step is over: the lines are output_lines and the step to come is next,
\* or the exception ends the try block
Advance(raised, output_lines, next) ==
    /\ ret' = IF raised THEN Failed(ret) ELSE output_lines
    /\ pc' = IF raised THEN "joined" ELSE next
    /\ UNCHANGED <<op, arg>>

\* _parse_and_format is called
FormatCall ==
    /\ pc = "idle"
    /\ \E nodes_dict \in FormatInputs : arg' = nodes_dict
    /\ op' = "format"
    /\ ret' = <<Heading("--- Workflow Metadata Report ---")>>
    /\ pc' = "model"

\* 1. the model checkpoint
FormatModel ==
    /\ pc = "model"
    /\ LET model_name == ExtractModelName(arg) IN
       Advance(model_name.raised, Append(ret, Line("Model", model_name.v, "str")), "loras")

\* 2. the LoRAs
FormatLoras ==
    /\ pc = "loras"
    /\ LET loras == ExtractLoras(arg) IN
       Advance(loras.raised, ret \o LoraLines(loras.v), "resolution")

\* 3. the resolution
FormatResolution ==
    /\ pc = "resolution"
    /\ LET resolution == ExtractResolution(arg) IN
       Advance(resolution.raised,
               IF Truthy(resolution.v)
               THEN Append(ret, Line("Resolution", resolution.v, "str")) ELSE ret,
               "prompts")

\* 4. and 5. the prompts and the negative prompt
FormatPrompts ==
    /\ pc = "prompts"
    /\ LET prompts == ExtractPrompts(arg) IN
       Advance(prompts.raised,
               ret \o <<Line("Positive Prompt", prompts.v.pos_prompt, "str")>>
                   \o (IF Truthy(prompts.v.t5xxl_prompt)
                       THEN <<Line("T5XXL Prompt", prompts.v.t5xxl_prompt, "str")>>
                       ELSE <<>>)
                   \o <<Line("Negative Prompt", PyStr("(Empty)"), "str")>>,
               "sampler")

\* 6. the sampler
FormatSampler ==
    /\ pc = "sampler"
    /\ LET sampler_info == ExtractSamplerInfo(arg) IN
       Advance(sampler_info.raised, ret \o SamplerLines(sampler_info.v), "components")

\* 7. the additional components
FormatComponents ==
    /\ pc = "components"
    /\ LET additional_components == ExtractAdditionalComponents(arg) IN
       Advance(additional_components.raised,
               ret \o ComponentLines(additional_components.v, 1), "joined")

\* the lines are joined and returned
FormatReturn ==
    /\ pc = "joined"
    /\ pc' = "idle"
    /\ op' = "none"
    /\ arg' = PyNone
    /\ ret' = PyNone

FormatNext ==
    \/ FormatCall \/ FormatModel \/ FormatLoras \/ FormatResolution \/ FormatPrompts
    \/ FormatSampler \/ FormatComponents \/ FormatReturn

FormatSpec == Init /\ [][FormatNext]_vars

(***************************************************************************)
(* The properties of the specification, checked on the outcome of every    *)
(* call.                                                                   *)
(***************************************************************************)
Loaded == pc = "done" /\ op = "load"
Reported == pc = "done" /\ op = "report"
\* {error: <message>} and nothing else
IsErrorOnly(metadata) ==
    IsDict(metadata) /\ Len(metadata.e) = 1 /\ metadata.e[1].k = PyStr("error")
    /\ IsStr(metadata.e[1].v)

\* C1: load_image_with_metadata never raises to the caller, whatever the source
\* selector and the state of the file system: every failure ends in the pair
\* (placeholder image, {error: message}).
C1_LoaderNeverRaises ==
    Loaded => /\ ret.kind = "returned"
              /\ ret.image.placeholder => IsErrorOnly(ret.metadata)

\* C2: report_metadata never raises, whatever the metadata: it always returns a
\* report text.
C2_ReporterNeverRaises ==
    Reported => ret.kind = "returned" /\ Len(ret.text) >= 1

\* C3: the metadata the Loader returns is a mapping on every return path,
\* whatever the embedded metadata and the sidecar file hold.
C3_MetadataIsMapping ==
    (Loaded /\ ret.kind = "returned") => IsDict(ret.metadata)

\* a value _get_nodes_dict may use as the graph
Usable(x) == x.t \in {"dict", "list"}
\* what each source of the graph yields alone; PyNone where it yields nothing
PromptYield(m) ==
    LET prompt == DictGet(m, PyStr("prompt"), PyNone) IN
    IF IsDict(prompt) THEN prompt
    ELSE IF IsStr(prompt) /\ JsonLoads(prompt.s).ok THEN JsonLoads(prompt.s).v
    ELSE PyNone
NodesOrWholeObject(w) == DictGet(w, PyStr("nodes"), w)
WorkflowYield(m) ==
    LET workflow == DictGet(m, PyStr("workflow"), PyNone) IN
    IF IsDict(workflow) THEN NodesOrWholeObject(workflow)
    ELSE IF IsStr(workflow) /\ JsonLoads(workflow.s).ok /\ IsDict(JsonLoads(workflow.s).v)
    THEN NodesOrWholeObject(JsonLoads(workflow.s).v)
    ELSE PyNone
NodesYield(m) == DictGet(m, PyStr("nodes"), PyNone)
\* the first source, in the order prompt, workflow, nodes, that yields a map or
\* a list
FirstUsable(m) ==
    IF Usable(PromptYield(m)) THEN PromptYield(m)
    ELSE IF Usable(WorkflowYield(m)) THEN WorkflowYield(m)
    ELSE IF Usable(NodesYield(m)) THEN NodesYield(m)
    ELSE PyNone

\* C4: _get_nodes_dict returns what the first of prompt, workflow, nodes that
\* yields a usable map or list yields; a source that fails to parse or yields
\* no map or list is skipped and the next one is tried.
C4_FirstUsableSource ==
    (Reported /\ ret.looked) => ret.nodes_dict = FirstUsable(arg)

\* C5: IS_CHANGED returns the not-a-number sentinel in most-recent mode, the hex
\* SHA-256 digest of the file's bytes in explicit-file mode, and the sentinel,
\* not an exception, whenever the file cannot be opened.
C5_ChangeSignal ==
    (pc = "done" /\ op = "is_changed") =>
        IF arg.source_type = "file" /\ arg.has_file /\ arg.file.state = "file"
        THEN ret = [kind |-> "hex", digest |-> arg.file.bytes]
        ELSE ret = NaN

\* the .png files of the walk, by their place in it
PngEntries(walk) == {i \in 1..Len(walk) : IsPngName(walk[i].path)}
LoadedMostRecent == Loaded /\ arg.source_type = "direct_input" /\ ret.kind = "returned"
NoneFound ==
    /\ ret.image.placeholder
    /\ ret.metadata = PyDict(<<KV("error", PyStr("No PNG files found in output directory"))>>)
    /\ ~ret.decoded

\* C6, as claimed: in most-recent mode the Loader processes exactly the .png file
\* whose modification time is greater than that of every other .png file,
\* whatever the order of the walk; without any .png file it returns error
\* metadata and decodes nothing.
C6_ExactlyTheGreatest ==
    LoadedMostRecent =>
        IF PngEntries(arg.walk) = {} THEN NoneFound
        ELSE /\ ret.decoded
             /\ \E i \in PngEntries(arg.walk) :
                  /\ arg.walk[i].path = ret.path
                  /\ \A j \in PngEntries(arg.walk) \ {i} :
                       arg.walk[j].mtime < arg.walk[i].mtime

\* C6, amended: the file processed in most-recent mode is a .png file of the
\* walk that no .png file is newer than, and the first such file in the order
\* of the walk (so it is the one newest file whatever the order, when there is
\* one); without any .png file the Loader returns error metadata and decodes
\* nothing.
C6_MostRecent ==
    LoadedMostRecent =>
        IF PngEntries(arg.walk) = {} THEN NoneFound
        ELSE /\ ret.decoded
             /\ \E i \in PngEntries(arg.walk) :
                  /\ arg.walk[i].path = ret.path
                  /\ \A j \in PngEntries(arg.walk) :
                       /\ arg.walk[j].mtime <= arg.walk[i].mtime
                       /\ j < i => arg.walk[j].mtime < arg.walk[i].mtime
\* the newest .png file comes last in the walk, behind an older .png file and a
\* file of another kind that is as new, and it is the one processed
C6_Witness ==
    /\ LoadedMostRecent /\ ret.decoded /\ Len(arg.walk) = 3
    /\ IsPngName(arg.walk[1].path) /\ ~IsPngName(arg.walk[2].path)
    /\ IsPngName(arg.walk[3].path)
    /\ arg.walk[1].mtime < arg.walk[3].mtime
    /\ arg.walk[2].mtime >= arg.walk[3].mtime
    /\ ret.path = arg.walk[3].path

\* the image was opened and its frames were read
Decoded == Loaded /\ ret.kind = "returned" /\ ret.decoded /\ arg.img.open = "ok"

\* C7, as claimed: whenever frame 2 differs in width from frame 1 the batch
\* returned holds exactly 1 frame, of the size of frame 1.
C7_OneFrameWhenSecondDiffers ==
    (Decoded /\ Len(arg.img.frames) >= 2
        /\ arg.img.frames[2].w # arg.img.frames[1].w) =>
        ret.image = Batch(<<arg.img.frames[1]>>)

\* C7, amended: every frame of the output has the width and height of the first
\* frame; the frames of another size are dropped without error, so the batch
\* holds the frames of the size of frame 1 (the first alone for an excluded
\* format), which is exactly 1 frame when a two-frame image's frame 2 differs.
C7_UniformFrames ==
    Decoded =>
        LET frames == arg.img.frames
            out == ret.image.frames IN
        /\ ~ret.image.placeholder
        /\ ~IsErrorOnly(ret.metadata)
        /\ \A i \in 1..Len(out) : out[i].w = frames[1].w /\ out[i].h = frames[1].h
        /\ Len(out) = IF arg.img.format \in ExcludedFormats THEN 1
                      ELSE Cardinality({i \in 1..Len(frames) : frames[i] = frames[1]})
        /\ (Len(frames) = 2 /\ frames[2].w # frames[1].w) => Len(out) = 1
\* frame 2 of three differs in width and is dropped, frame 3 is kept
C7_Witness ==
    /\ Decoded /\ Len(arg.img.frames) = 3
    /\ arg.img.frames[2].w # arg.img.frames[1].w
    /\ arg.img.frames[3] = arg.img.frames[1]
    /\ ret.image = Batch(<<arg.img.frames[1], arg.img.frames[3]>>)

Sentinel == PyDict(<<KV("info", PyStr(NoWorkflow))>>)
\* the image carries one of the keys _parse_png_metadata looks for
Recognized(info) ==
    \E i \in 1..Len(info.e) :
        info.e[i].k \in {PyStr("prompt"), PyStr("workflow"), PyStr("parameters")}

\* C8: the sidecar file is tried only when the extraction yielded the sentinel
\* (or nothing), which it does exactly for an image without a recognized key; a
\* sidecar file that exists and parses replaces the metadata by its contents,
\* and with a file that is absent or does not parse the metadata stays what
\* the extraction yielded; the load succeeds in each case.
C8_SidecarFallback ==
    Decoded =>
        LET sidecar == arg.img.sidecar
            parsed == JsonLoads(sidecar.text) IN
        /\ ~ret.image.placeholder
        /\ ret.sidecarTried <=> ret.extracted \in {Sentinel, PyDict(<<>>)}
        /\ ret.extracted = Sentinel <=> ~Recognized(arg.img.info)
        /\ ret.fallback = IF ret.sidecarTried /\ sidecar.state = "file" /\ parsed.ok
                          THEN parsed.v ELSE ret.extracted
        /\ ret.metadata = IF IsDict(ret.fallback)
                          THEN DictSet(DictSet(ret.fallback, PyStr("image_path"),
                                               PyStr(PathStr(ret.path))),
                                       PyStr("image_filename"), PyStr(Basename(ret.path)))
                          ELSE ret.fallback
\* the sidecar file is there and does not parse: the sentinel stays
C8_Witness ==
    /\ Decoded /\ ret.sidecarTried
    /\ arg.img.sidecar.state = "file" /\ ~JsonLoads(arg.img.sidecar.text).ok
    /\ ret.fallback = Sentinel
    /\ ~ret.image.placeholder

\* C9, as claimed: every metadata mapping the Loader returns holds image_path and
\* image_filename.
C9_EveryMappingHasPath ==
    (Loaded /\ ret.kind = "returned" /\ IsDict(ret.metadata)) =>
        /\ HasKey(ret.metadata, PyStr("image_path"))
        /\ HasKey(ret.metadata, PyStr("image_filename"))

\* C9, amended: every metadata mapping the Loader returns with a loaded image
\* holds image_path and image_filename, the path processed and its base name,
\* whatever the embedded or sidecar data held under these keys, and is exactly
\* {info, image_path, image_filename} for an image without recognized keys and
\* without a sidecar file; with the placeholder image the mapping is
\* {error: message} alone.
C9_PathInjected ==
    (Loaded /\ ret.kind = "returned" /\ IsDict(ret.metadata)) =>
        IF ret.image.placeholder THEN IsErrorOnly(ret.metadata)
        ELSE LET image_path == PyStr(ret.path.dir \o "/" \o ret.path.stem \o ret.path.ext)
                 image_filename == PyStr(ret.path.stem \o ret.path.ext) IN
             /\ arg.source_type = "file" =>
                  ret.path = Path("input", arg.image_file.stem, arg.image_file.ext)
             /\ DictGet(ret.metadata, PyStr("image_path"), PyNone) = image_path
             /\ DictGet(ret.metadata, PyStr("image_filename"), PyNone) = image_filename
             /\ (~Recognized(arg.img.info) /\ arg.img.sidecar.state = "absent") =>
                  ret.metadata = PyDict(<<KV("info", PyStr(NoWorkflow)),
                                          Entry(PyStr("image_path"), image_path),
                                          Entry(PyStr("image_filename"), image_filename)>>)
\* the sidecar file has an image_path of its own, and the path processed
\* replaces it
C9_Witness ==
    /\ Decoded /\ ret.sidecarTried /\ arg.img.sidecar.state = "file"
    /\ IsDict(ret.fallback)
    /\ DictGet(ret.fallback, PyStr("image_path"), PyNone) = PyStr("x")
    /\ DictGet(ret.metadata, PyStr("image_path"), PyNone) = PyStr("input/up.png")
    /\ DictGet(ret.metadata, PyStr("image_filename"), PyNone) = PyStr("up.png")

\* the places of the KSampler nodes of a graph
KSamplers(g) == {i \in 1..Len(g.e) : IsNodeOf(g.e[i].v, "KSampler")}
\* every node is a mapping with a mapping of inputs
WellFormed(g) == \A i \in 1..Len(g.e) : IsDict(g.e[i].v) /\ IsDict(InputsOf(g.e[i].v))
\* the report has the sampler section
HasSamplerSection == \E i \in 1..Len(ret.text) : ret.text[i] = Heading("--- Sampler Details ---")
\* the report's sampler section gives v as the seed
ReportsSeed(v) ==
    /\ HasSamplerSection =>
         /\ \E i \in 1..Len(ret.text) : ret.text[i] = Line("Seed", v, "str")
         /\ Cardinality({i \in 1..Len(ret.text) : ret.text[i].label = "Seed"}) = 1
    /\ WellFormed(ret.nodes_dict) => HasSamplerSection

\* C10: the seed reported for a KSampler is the seed input when that is a
\* scalar, the seed input of the node referred to when the seed input is a
\* reference [node_id, output_index] to a "Seed Everywhere" node, and "N/A"
\* when the node referred to is missing or of another class type.
C10_SeedResolution ==
    (Reported /\ ret.branch = "graph" /\ IsDict(ret.nodes_dict)
        /\ KSamplers(ret.nodes_dict) # {}) =>
        LET g == ret.nodes_dict
            sampler == g.e[CHOOSE i \in KSamplers(g) : \A j \in KSamplers(g) : i <= j].v
            inputs == InputsOf(sampler)
            seed == DictGet(inputs, PyStr("seed"), PyNone)
            is_ref == IsList(seed) /\ Len(seed.e) = 2 /\ seed.e[1].v.t \in {"str", "num"}
            node_id == seed.e[1].v
            target == DictGet(g, node_id, PyNone)
            target_inputs == InputsOf(target)
        IN IsDict(inputs) =>
             /\ (HasKey(inputs, PyStr("seed")) /\ seed.t \in {"num", "str", "bool"}) =>
                  ReportsSeed(seed)
             /\ (is_ref /\ HasKey(g, node_id) /\ IsNodeOf(target, "Seed Everywhere")
                   /\ IsDict(target_inputs) /\ HasKey(target_inputs, PyStr("seed"))) =>
                  ReportsSeed(Lookup(target_inputs, PyStr("seed")))
             /\ (is_ref /\ (~HasKey(g, node_id)
                            \/ (IsDict(target) /\ ~IsNodeOf(target, "Seed Everywhere")))) =>
                  ReportsSeed(NA)
\* the seed input ["5", 0] refers to the "Seed Everywhere" node "5" of seed 42,
\* and the report says Seed: 42
C10_Witness ==
    /\ Reported /\ ret.branch = "graph" /\ IsDict(ret.nodes_dict)
    /\ \E i \in KSamplers(ret.nodes_dict) :
         DictGet(InputsOf(ret.nodes_dict.e[i].v), PyStr("seed"), PyNone) = Ref(PyStr("5"), 0)
    /\ DictGet(ret.nodes_dict, PyStr("5"), PyNone)
         = Node("Seed Everywhere", PyDict(<<KV("seed", PyNum(42))>>))
    /\ \E i \in 1..Len(ret.text) : ret.text[i] = Line("Seed", PyNum(42), "str")

\* the places of the LoRA nodes of a graph
LoraLoaders(g) == {i \in 1..Len(g.e) : IsNodeOf(g.e[i].v, "Power Lora Loader (rgthree)")}
\* the entry of the LoRA section for an input of a LoRA node
LoraEntry(value) ==
    Line("  - ", PyDict(<<KV("name", DictGet(value, PyStr("lora"), NA)),
                          KV("strength", DictGet(value, PyStr("strength"), NA))>>), "lora")
\* whether an input of a LoRA node is a LoRA that is switched on
IsLoraOn(input) ==
    /\ IsStr(input.k) /\ StartsWithLora(input.k.s)
    /\ IsDict(input.v) /\ DictGet(input.v, PyStr("on"), PyNone) = PyBool(TRUE)
RECURSIVE EntriesOf(_)
\* one entry for each input that is a LoRA switched on, in the order of the inputs
EntriesOf(inputs) ==
    IF inputs = <<>> THEN <<>>
    ELSE (IF IsLoraOn(Head(inputs)) THEN <<LoraEntry(Head(inputs).v)>> ELSE <<>>)
         \o EntriesOf(Tail(inputs))
\* the entries of the LoRA section of the report
ReportedLoras == SelectSeq(ret.text, LAMBDA l : l.how = "lora")
\* the graph of the report has two or more LoRA nodes, and the report got as far
\* as its model line
SeveralLoraLoaders ==
    /\ Reported /\ ret.branch = "graph" /\ IsDict(ret.nodes_dict)
    /\ Cardinality(LoraLoaders(ret.nodes_dict)) >= 2
    /\ \E i \in 1..Len(ret.text) : ret.text[i].label = "Model"
FirstLoraLoader ==
    ret.nodes_dict.e[CHOOSE i \in LoraLoaders(ret.nodes_dict) :
                       \A j \in LoraLoaders(ret.nodes_dict) : i <= j].v

\* C11: in a graph with two or more "Power Lora Loader (rgthree)" nodes, the LoRA
\* entries of the report are those of the first of them in iteration order, one
\* for each input whose key starts with lora_ and whose value is a mapping with
\* on true; the later nodes add nothing, even when the first one has no entry.
C11_FirstLoraLoaderOnly ==
    SeveralLoraLoaders =>
        /\ ReportedLoras = EntriesOf(InputsOf(FirstLoraLoader).e)
        /\ (\E i \in 1..Len(ret.text) : ret.text[i] = Heading("LoRAs:"))
             <=> EntriesOf(InputsOf(FirstLoraLoader).e) # <<>>
\* the first LoRA node has no LoRA switched on, the second one has two, and the
\* report has no LoRA entry
C11_Witness ==
    /\ SeveralLoraLoaders
    /\ EntriesOf(InputsOf(FirstLoraLoader).e) = <<>>
    /\ \E i \in LoraLoaders(ret.nodes_dict) :
         Len(EntriesOf(InputsOf(ret.nodes_dict.e[i].v).e)) = 2
    /\ ReportedLoras = <<>>

\* the graph without its node at place j
Without(g, j) == PyDict(SubSeq(g.e, 1, j - 1) \o SubSeq(g.e, j + 1, Len(g.e)))
\* the places of the nodes that come after a node of their class type
LaterOfSameType(g) ==
    {j \in 1..Len(g.e) :
       \E i \in 1..(j - 1) :
          /\ IsDict(g.e[i].v) /\ IsDict(g.e[j].v)
          /\ HasKey(g.e[j].v, PyStr("class_type"))
          /\ DictGet(g.e[i].v, PyStr("class_type"), PyNone)
               = Lookup(g.e[j].v, PyStr("class_type"))}

\* C12: when several nodes of one class type exist, every rule of the report
\* takes its values from the first of them in iteration order: a later node of
\* the same type never changes a reported value, so the report is what it is
\* for the graph without that node.
C12_FirstNodeWins ==
    (Reported /\ ret.branch = "graph" /\ IsDict(ret.nodes_dict)
        /\ WellFormed(ret.nodes_dict)) =>
        \A j \in LaterOfSameType(ret.nodes_dict) :
           ret.text = ParseAndFormat(Without(ret.nodes_dict, j))

\* a is the beginning of b
IsPrefix(a, b) == Len(a) <= Len(b) /\ SubSeq(b, 1, Len(a)) = a
\* the places a line may have in the order header, model, LoRAs, resolution,
\* prompts, negative prompt, sampler, components, error line
Ranks(l) ==
    CASE l = Heading("--- Workflow Metadata Report ---") -> {0}
      [] l = ErrorLine -> {8}
      [] l.label = "Model" /\ l.how = "str" -> {1}
      [] l = Heading("LoRAs:") \/ l.how = "lora" -> {2}
      [] l.label = "Resolution" -> {3, 7}
      [] l.label \in {"Positive Prompt", "T5XXL Prompt"} -> {4}
      [] l.label = "Negative Prompt" -> {5}
      [] l = Heading("--- Sampler Details ---")
         \/ l.label \in {"Seed", "Steps", "Cfg", "Sampler Name", "Scheduler", "Denoise",
                         "True Gs", "Timestep To Start Cfg", "Image To Image Strength"} -> {6}
      [] l \in {Heading("--- ControlNet Details ---"), Heading("--- IPAdapter Details ---")}
         \/ l.label \in {"Model Name", "Controlnet Path", "Strength", "Low Threshold",
                         "High Threshold", "Adapter", "Clip Vision", "Provider",
                         "Ip Scale"} -> {7}
      [] OTHER -> {}
RECURSIVE InOrder(_, _, _)
\* the lines from line i on can be given places that never go down from floor
InOrder(lines, i, floor) ==
    IF i > Len(lines) THEN TRUE
    ELSE LET open == {r \in Ranks(lines[i]) : r >= floor} IN
         /\ open # {}
         /\ InOrder(lines, i + 1, CHOOSE r \in open : \A q \in open : r <= q)
Formatting == op = "format"
\* the lines so far are in the order of the sections, and an error line is
\* the last line of a report that is over
SectionsInOrder ==
    Formatting =>
        /\ ret[1] = Heading("--- Workflow Metadata Report ---")
        /\ InOrder(ret, 1, 0)
        /\ \A i \in 1..Len(ret) : ret[i] = ErrorLine => i = Len(ret) /\ pc = "joined"
        /\ (pc = "joined" /\ ret[Len(ret)] # ErrorLine) =>
             /\ ret[2].label = "Model"
             /\ \E i \in 3..Len(ret) :
                  /\ ret[i].label = "Positive Prompt"
                  /\ \E j \in (i + 1)..Len(ret) : ret[j].label = "Negative Prompt"
\* a step leaves the lines that are there as they are and in their places, and
\* a step that fails adds the error line and nothing else
AppendOnly ==
    (Formatting /\ Formatting') =>
        /\ IsPrefix(ret, ret')
        /\ (ret'[Len(ret')] = ErrorLine /\ ret' # ret) => ret' = Append(ret, ErrorLine)

\* C13: the report of a graph is built by appending, its sections in the order
\* header, model, LoRAs, resolution, prompts, negative prompt, sampler,
\* components; when a step raises, the lines appended so far stay as they are,
\* as the beginning of the output, and the error line is the last line.
C13_AppendOnlyInOrder == []SectionsInOrder /\ [][AppendOnly]_vars
\* the sampler step failed after the model and prompt lines were appended: they
\* are still there, followed by the error line
C13_Witness ==
    /\ Formatting /\ pc = "joined" /\ Len(ret) >= 5
    /\ ret[Len(ret)] = ErrorLine
    /\ ret[Len(ret) - 1] = Line("Negative Prompt", PyStr("(Empty)"), "str")
    /\ ret[2].label = "Model"

\* C14: for metadata that is empty or no mapping report_metadata returns the
\* fixed "no valid metadata" message without looking for a graph; when it looks
\* for the graph and finds none, it returns the flat report, a header and one
\* line for each entry, for a mapping that is not empty, and otherwise the
\* "could not find workflow node structure" message with at most 10 key names.
C14_NoGraphReport ==
    Reported =>
        IF ~IsDict(arg) \/ Len(arg.e) = 0
        THEN /\ ret.kind = "returned" /\ ~ret.looked
             /\ ret.text = <<Heading("Metadata report: No valid metadata was provided.")>>
        ELSE /\ ret.looked
             /\ ~Truthy(ret.nodes_dict) =>
                  /\ ret.kind = "returned"
                  /\ IF Len(arg.e) > 0
                     THEN /\ ret.branch = "direct"
                          /\ ret.text[1] = Heading("--- Image Metadata ---")
                          /\ Len(ret.text) = 1 + Len(arg.e)
                     ELSE /\ ret.branch = "no nodes"
                          /\ ret.text[1].label
                               = "Could not find workflow node structure in metadata."
                          /\ Len(ret.text[1].v.e) <= 10
====
